---------------------------- MODULE Spec2Model ----------------------------
(***************************************************************************)
(* A model of the CAN covert-channel decoders:                             *)
(*   time_decode.py    - gaps -> bits -> bytes -> flag, and the sweep      *)
(*   find_threshold.py - gap clustering and the threshold it proposes      *)
(*   bit_candecoder.py - the bit-pattern recognizer and its main loop      *)
(*                                                                         *)
(* Representation.                                                         *)
(*   - A Python str / list of byte values is a sequence of character       *)
(*     codes (0..255); Python's 0-based positions are kept in every        *)
(*     index the code computes (find, range), so s[i] of the code is       *)
(*     s[i+1] here.                                                        *)
(*   - A bit string is a sequence over {0,1}; short_is is 0 or 1.          *)
(*   - Python's None is the value None below for a string (no character   *)
(*     has the code -1), and a record with some = FALSE for a float or a   *)
(*     list.                                                               *)
(*   - Time is counted in ticks: a gap is an integer number of ticks, and  *)
(*     a threshold is held in HALF ticks, so that the midpoint             *)
(*     (a + b) / 2 and the median of an even number of gaps are exact.     *)
(*     "g < threshold" of the code is "2 * g < threshold" here.            *)
(***************************************************************************)
EXTENDS Integers, Sequences, FiniteSets, TLC

VARIABLES
    pc,           \* position of the running script
    ts,           \* timestamps parsed from the log (ticks)
    gaps,         \* gaps_from_timestamps(ts)
    threshold,    \* time_decode: argv's threshold (half ticks);
                  \* find_threshold: what analyze_gaps returned
    cluster1,     \* find_gap_clusters: first cluster or None
    cluster2,     \* find_gap_clusters: second cluster or None
    report,       \* what find_threshold's __main__ prints at the end
    short_is,     \* polarity: the bit a short gap stands for
    offset,       \* number of leading bits dropped by the packer
    lsb_first,    \* bit order of a byte
    bitstr,       \* bits_from_gaps(...)
    bs,           \* byte buffer handed to extract_flag
    flag,         \* result of extract_flag
    results,      \* try_all_combinations: list of result tuples
    tried,        \* history: the hypotheses the sweep has evaluated
    bit_string,   \* bit_candecoder: the bit string of one method
    found,        \* bit_candecoder: (flag, pos) of search_for_flag
    found_flags,  \* bit_candecoder main: flags accepted by the loop
    msg,          \* the message a scenario embeds
    shape,        \* how a scenario lays the message out in the buffer
    k             \* split position of a wrapped scenario

vars == <<pc, ts, gaps, threshold, cluster1, cluster2, report, short_is,
          offset, lsb_first, bitstr, bs, flag, results, tried, bit_string,
          found, found_flags, msg, shape, k>>

----------------------------------------------------------------------------
(* Values and string primitives                                            *)

None == << -1 >>

\* 'flag{' (time_decode.py:48) and 'flag' (time_decode.py:82)
PrefixBrace == <<102, 108, 97, 103, 123>>
PrefixWord == <<102, 108, 97, 103>>
\* '}' and the placeholder '.'
CloseBrace == 125
Placeholder == 46
\* default of extract_flag's max_search
MaxSearch == 200

Min(a, b) == IF a < b THEN a ELSE b

Reverse(s) == [i \in 1..Len(s) |-> s[Len(s) + 1 - i]]

\* s[a:b] of Python for 0 <= a, 0 <= b
Slice(s, a, b) == SubSeq(s, a + 1, Min(b, Len(s)))

\* chr(b) if 32 <= b < 127 else '.'
ToChars(b) == [i \in 1..Len(b) |-> IF 32 <= b[i] /\ b[i] < 127 THEN b[i] ELSE Placeholder]

\* str.lower() on ASCII
LowerChar(c) == IF 65 <= c /\ c <= 90 THEN c + 32 ELSE c
Lower(s) == [i \in 1..Len(s) |-> LowerChar(s[i])]

StartsWith(s, p) == Len(s) >= Len(p) /\ SubSeq(s, 1, Len(p)) = p

Contains(s, c) == \E i \in 1..Len(s) : s[i] = c

\* str.find(p, start): the least 0-based position >= start where p occurs, or -1
FindFrom(s, p, start) ==
    LET hits == {i \in start..(Len(s) - Len(p)) : SubSeq(s, i + 1, i + Len(p)) = p}
    IN IF hits = {} THEN -1 ELSE CHOOSE i \in hits : \A j \in hits : i <= j

Find(s, p) == FindFrom(s, p, 0)

----------------------------------------------------------------------------
(* time_decode.py                                                          *)

\* gaps_from_timestamps
gaps_from_timestamps(t) == [i \in 1..(IF Len(t) = 0 THEN 0 ELSE Len(t) - 1) |-> t[i + 1] - t[i]]

\* bits_from_gaps: thr is in half ticks
bits_from_gaps(g, thr, sh) ==
    [i \in 1..Len(g) |-> IF 2 * g[i] < thr THEN sh ELSE (IF sh = 0 THEN 1 ELSE 0)]

\* int(chunk, 2)
RECURSIVE BitsValue(_)
BitsValue(chunk) ==
    IF chunk = <<>> THEN 0
    ELSE 2 * BitsValue(SubSeq(chunk, 1, Len(chunk) - 1)) + chunk[Len(chunk)]

\* the loop of pack_bits_to_bytes over i = 0, 8, 16, ...
RECURSIVE PackLoop(_, _, _, _)
PackLoop(s, i, lsb, out) ==
    IF i >= Len(s) THEN out
    ELSE LET chunk == Slice(s, i, i + 8)
         IN IF Len(chunk) < 8 THEN out
            ELSE PackLoop(s, i + 8, lsb,
                          Append(out, IF lsb THEN BitsValue(Reverse(chunk))
                                             ELSE BitsValue(chunk)))

\* pack_bits_to_bytes that zero-pads the trailing chunk to a whole byte
pack_bits_to_bytes_padded(b, off, lsb) ==
    LET s == Slice(b, off, Len(b))
    IN PackLoop(s \o [i \in 1..((8 - (Len(s) % 8)) % 8) |-> 0], 0, lsb, <<>>)

pack_bits_to_bytes(b, off, lsb) == PackLoop(Slice(b, off, Len(b)), 0, lsb, <<>>)

\* "beginning" of the wrapped branch: s[0..closing_pos], placeholders dropped
RECURSIVE WrapBeginning(_, _, _, _)
WrapBeginning(s, i, end, acc) ==
    IF i >= end THEN acc
    ELSE LET char == s[i + 1]
             acc2 == IF char # Placeholder THEN Append(acc, char) ELSE acc
         IN IF char = CloseBrace THEN acc2 ELSE WrapBeginning(s, i + 1, end, acc2)

\* "ending" of the wrapped branch: s[flag_pos..], placeholders dropped
RECURSIVE WrapEnding(_, _, _)
WrapEnding(s, i, acc) ==
    IF i >= Len(s) THEN acc
    ELSE WrapEnding(s, i + 1, IF s[i + 1] # Placeholder THEN Append(acc, s[i + 1]) ELSE acc)

\* SeqScan without the "break" at '}'
RECURSIVE SeqScanNoBreak(_, _, _, _)
SeqScanNoBreak(s, i, end, acc) ==
    IF i >= end THEN acc
    ELSE SeqScanNoBreak(s, i + 1, end,
                        IF s[i + 1] # Placeholder THEN Append(acc, s[i + 1]) ELSE acc)

\* the sequential scan: from flag_pos up to the first '}' or the window's end
RECURSIVE SeqScan(_, _, _, _)
SeqScan(s, i, end, acc) ==
    IF i >= end THEN acc
    ELSE LET char == s[i + 1]
         IN IF char = CloseBrace THEN Append(acc, char)
            ELSE IF char # Placeholder THEN SeqScan(s, i + 1, end, Append(acc, char))
            ELSE SeqScan(s, i + 1, end, acc)

\* WrappedResult with the two halves joined in buffer order
WrappedResultInBufferOrder(s, flag_pos, closing_pos) ==
    LET result == WrapBeginning(s, 0, Min(closing_pos + 1, Len(s)), <<>>)
                    \o WrapEnding(s, flag_pos, <<>>)
    IN IF StartsWith(result, PrefixBrace) /\ Contains(result, CloseBrace)
       THEN result ELSE None

\* the wrapped branch's result and test
WrappedResult(s, flag_pos, closing_pos) ==
    LET result == WrapEnding(s, flag_pos, <<>>)
                    \o WrapBeginning(s, 0, Min(closing_pos + 1, Len(s)), <<>>)
    IN IF StartsWith(result, PrefixBrace) /\ Contains(result, CloseBrace)
       THEN result ELSE None

\* the sequential branch's result and test
SequentialResult(s, flag_pos, max_search) ==
    LET result == SeqScan(s, flag_pos, Min(flag_pos + max_search, Len(s)), <<>>)
    IN IF StartsWith(result, PrefixWord) /\ Contains(result, CloseBrace)
       THEN result ELSE None

\* "Try forward": the wrapped or the sequential branch
ForwardPass(b, max_search) ==
    LET s == ToChars(b)
        flag_pos == Find(Lower(s), PrefixBrace)
        closing_pos == Find(s, <<CloseBrace>>)
    IN IF flag_pos # -1 /\ closing_pos # -1
       THEN IF flag_pos > closing_pos
            THEN WrappedResult(s, flag_pos, closing_pos)
            ELSE SequentialResult(s, flag_pos, max_search)
       ELSE None

\* "Try byte-reversed": a sequential scan of the reversed buffer
ReversedPass(b, max_search) ==
    LET s_reversed == ToChars(Reverse(b))
        flag_pos == Find(Lower(s_reversed), PrefixBrace)
    IN IF flag_pos # -1 THEN SequentialResult(s_reversed, flag_pos, max_search)
       ELSE None

extract_flag(b, max_search) ==
    LET fwd == ForwardPass(b, max_search)
    IN IF fwd # None THEN fwd ELSE ReversedPass(b, max_search)

\* the flag the sweep's loop body computes for the hypothesis (sh, off, lsb)
DecodeUnder(g, thr, sh, off, lsb) ==
    extract_flag(pack_bits_to_bytes(bits_from_gaps(g, thr, sh), off, lsb), MaxSearch)

\* [r[4] for r in results]
ResultFlags(res) == {res[i].flag : i \in 1..Len(res)}

\* "if flag and flag not in [...]": None and '' are falsy
Truthy(f) == f # None /\ f # <<>>

\* SweepBody without the "flag not in [...]" test
SweepBodyNoDedup(res, sh, off, lsb, f) ==
    IF Truthy(f)
    THEN Append(res, [short_is |-> sh, offset |-> off,
                      byte_order |-> IF lsb THEN "LSB" ELSE "MSB",
                      lsb_first |-> lsb, flag |-> f])
    ELSE res

\* "if flag and flag not in [...]: results.append(...)" for the flag f that
\* the hypothesis (sh, off, lsb) gave
SweepBody(res, sh, off, lsb, f) ==
    IF Truthy(f) /\ f \notin ResultFlags(res)
    THEN Append(res, [short_is |-> sh, offset |-> off,
                      byte_order |-> IF lsb THEN "LSB" ELSE "MSB",
                      lsb_first |-> lsb, flag |-> f])
    ELSE res

----------------------------------------------------------------------------
(* find_threshold.py                                                       *)

\* sorted(gaps)
RECURSIVE Insert(_, _)
Insert(s, x) ==
    IF s = <<>> THEN <<x>>
    ELSE IF x < Head(s) THEN <<x>> \o s
    ELSE <<Head(s)>> \o Insert(Tail(s), x)

RECURSIVE Sorted(_)
Sorted(s) == IF s = <<>> THEN <<>> ELSE Insert(Sorted(SubSeq(s, 1, Len(s) - 1)), s[Len(s)])

\* s[i] of Python, where a negative i counts from the end
PyIndex(s, i) == IF i < 0 THEN s[Len(s) + i + 1] ELSE s[i + 1]

\* the loop "for i in range(1, len(sorted_gaps))" of find_gap_clusters
RECURSIVE JumpScan(_, _, _, _)
JumpScan(s, i, max_jump, split_idx) ==
    IF i >= Len(s) THEN [max_jump |-> max_jump, split_idx |-> split_idx]
    ELSE LET jump == s[i + 1] - s[i]
         IN IF jump > max_jump THEN JumpScan(s, i + 1, jump, i)
            ELSE JumpScan(s, i + 1, max_jump, split_idx)

\* SplitAccepted with ">=" for ">"
SplitAcceptedOrEqual(sorted_gaps, max_jump, split_idx) ==
    max_jump >= PyIndex(sorted_gaps, split_idx - 1) * 2

\* "if max_jump > sorted_gaps[split_idx-1] * 2"
SplitAccepted(sorted_gaps, max_jump, split_idx) ==
    max_jump > PyIndex(sorted_gaps, split_idx - 1) * 2

\* Python's None for a cluster, and a cluster that is a list
NoCluster == [some |-> FALSE, val |-> <<>>]
SomeCluster(c) == [some |-> TRUE, val |-> c]

find_gap_clusters(g) ==
    LET sorted_gaps == Sorted(g)
        scan == JumpScan(sorted_gaps, 1, 0, Len(sorted_gaps) \div 2)
    IN IF SplitAccepted(sorted_gaps, scan.max_jump, scan.split_idx)
       THEN [cluster1 |-> SomeCluster(Slice(sorted_gaps, 0, scan.split_idx)),
             cluster2 |-> SomeCluster(Slice(sorted_gaps, scan.split_idx, Len(sorted_gaps)))]
       ELSE [cluster1 |-> NoCluster, cluster2 |-> NoCluster]

SeqMax(s) == CHOOSE x \in {s[i] : i \in 1..Len(s)} : \A j \in 1..Len(s) : s[j] <= x
SeqMin(s) == CHOOSE x \in {s[i] : i \in 1..Len(s)} : \A j \in 1..Len(s) : x <= s[j]

\* statistics.median, in half ticks
Median2(g) ==
    LET s == Sorted(g)
        n == Len(s)
    IN IF n % 2 = 1 THEN 2 * s[(n \div 2) + 1] ELSE s[n \div 2] + s[(n \div 2) + 1]

\* "if cluster1 and cluster2": None and [] are falsy
ClustersFound(c1, c2) == c1.some /\ c1.val # <<>> /\ c2.some /\ c2.val # <<>>

\* (max(cluster1) + min(cluster2)) / 2, in half ticks
Midpoint2(c1, c2) == SeqMax(c1.val) + SeqMin(c2.val)

\* a float-or-None: NoThreshold is Python's None
NoThreshold == [some |-> FALSE, val |-> 0]
SomeThreshold(v) == [some |-> TRUE, val |-> v]

\* the threshold analyze_gaps returns (half ticks), or None for no gaps
analyze_gaps(g) ==
    IF g = <<>> THEN NoThreshold
    ELSE LET c == find_gap_clusters(g)
         IN IF ClustersFound(c.cluster1, c.cluster2)
            THEN SomeThreshold(Midpoint2(c.cluster1, c.cluster2))
            ELSE SomeThreshold(Median2(g))

\* "if threshold:" of __main__: None and 0.0 are falsy
ThresholdTruthy(thr) == thr.some /\ thr.val # 0

----------------------------------------------------------------------------
(* bit_candecoder.py                                                       *)

\* format(ord(c), '08b')
ByteBits(c) == [i \in 1..8 |-> (c \div (2 ^ (8 - i))) % 2]

RECURSIVE StringBits(_)
StringBits(s) == IF s = <<>> THEN <<>> ELSE ByteBits(Head(s)) \o StringBits(Tail(s))

\* the loop of decode_bits_to_string
RECURSIVE DecodeLoop(_, _, _, _, _)
DecodeLoop(b, i, reverse_each_byte, stop_at_brace, result) ==
    IF i >= Len(b) THEN result
    ELSE IF i + 8 <= Len(b)
    THEN LET byte == IF reverse_each_byte THEN Reverse(Slice(b, i, i + 8))
                     ELSE Slice(b, i, i + 8)
             char_val == BitsValue(byte)
         IN IF char_val = CloseBrace /\ stop_at_brace THEN Append(result, char_val)
            ELSE IF 32 <= char_val /\ char_val <= 126
            THEN DecodeLoop(b, i + 8, reverse_each_byte, stop_at_brace,
                            Append(result, char_val))
            ELSE IF stop_at_brace THEN result
            ELSE DecodeLoop(b, i + 8, reverse_each_byte, stop_at_brace,
                            Append(result, Placeholder))
    ELSE DecodeLoop(b, i + 8, reverse_each_byte, stop_at_brace, result)

decode_bits_to_string(b, reverse_each_byte, stop_at_brace) ==
    DecodeLoop(b, 0, reverse_each_byte, stop_at_brace, <<>>)

\* the MSB bit-pattern path of search_for_flag
SearchMsb(b) ==
    LET target == StringBits(PrefixWord)
        pos == Find(b, target)
    IN IF pos # -1
       THEN LET result == decode_bits_to_string(Slice(b, pos, Len(b)), FALSE, TRUE)
            IN IF StartsWith(result, PrefixWord) /\ Contains(result, CloseBrace)
               THEN [flag |-> result, pos |-> pos]
               ELSE [flag |-> None, pos |-> -1]
       ELSE [flag |-> None, pos |-> -1]

\* the LSB path of search_for_flag
SearchLsb(b) ==
    LET result_lsb == decode_bits_to_string(b, TRUE, FALSE)
        flag_pos == Find(Lower(result_lsb), PrefixBrace)
    IN IF flag_pos # -1
       THEN LET end_pos == FindFrom(result_lsb, <<CloseBrace>>, flag_pos)
            IN IF end_pos # -1
               THEN [flag |-> Slice(result_lsb, flag_pos, end_pos + 1),
                     pos |-> flag_pos * 8]
               ELSE [flag |-> None, pos |-> -1]
       ELSE [flag |-> None, pos |-> -1]

search_for_flag(b) ==
    LET m == SearchMsb(b)
    IN IF m.flag # None THEN m ELSE SearchLsb(b)

\* "if flag and flag.startswith('flag')" of main's loop
LoopAccepts(f) == Truthy(f) /\ StartsWith(f, PrefixWord)

\* one method of main's loop: the bit string, then the reversed bit string
MethodFlags(b) ==
    LET fwd == search_for_flag(b)
        rev == search_for_flag(Reverse(b))
    IN IF LoopAccepts(fwd.flag) THEN <<[reversed |-> FALSE, flag |-> fwd.flag]>>
       ELSE IF LoopAccepts(rev.flag) THEN <<[reversed |-> TRUE, flag |-> rev.flag]>>
       ELSE <<>>

----------------------------------------------------------------------------
(* Bounds and the inputs the specifications draw from                      *)

MaxBodyTok == 2     \* tokens in a message body
MaxBufTok == 4      \* tokens in an arbitrary byte buffer
MaxPre == 8         \* arbitrary leading bits of a packer input
MaxChunks == 2      \* whole bytes following them
MaxLead == 0        \* leading bits of a sweep input
MaxPad == 1         \* bits between the segments of a sweep input
MaxGap == 5         \* largest gap between two timestamps (ticks)
MaxGaps == 4        \* number of gaps of a timestamp sequence
MaxSurTok == 1      \* tokens before and after an embedded message

\* all concatenations of at most n sequences of toks
RECURSIVE Concats(_, _)
Concats(toks, n) ==
    IF n = 0 THEN {<<>>}
    ELSE LET prev == Concats(toks, n - 1)
         IN prev \cup {p \o t : p \in prev, t \in toks}

\* 'a', '.', 'flag{', '{galf', 'FLAG{'
BodyTokens == {<<97>>, <<Placeholder>>, PrefixBrace, Reverse(PrefixBrace),
               <<70, 76, 65, 71, 123>>}
Bodies == Concats(BodyTokens, MaxBodyTok)

\* 'flag{' + body + '}'
Message(body) == PrefixBrace \o body \o <<CloseBrace>>
Messages == {Message(b) : b \in Bodies}
BodyOf(m) == SubSeq(m, Len(PrefixBrace) + 1, Len(m) - 1)

\* 'flag{', 'FLAG{', 'flag', '}', 'a', '.', a non-printable byte, '{galf'
BufTokens == {PrefixBrace, <<70, 76, 65, 71, 123>>, PrefixWord, <<CloseBrace>>,
              <<97>>, <<Placeholder>>, <<0>>, Reverse(PrefixBrace)}
Buffers == Concats(BufTokens, MaxBufTok)

\* the bits a sender emits for a byte buffer, 8 per byte in the given order
RECURSIVE BufferBits(_, _)
BufferBits(b, lsb) ==
    IF b = <<>> THEN <<>>
    ELSE (IF lsb THEN Reverse(ByteBits(Head(b))) ELSE ByteBits(Head(b)))
           \o BufferBits(Tail(b), lsb)

\* the gaps a sender emits for a bit string: sg for a short_is bit, lg otherwise
GapsFor(bits, sh, sg, lg) == [i \in 1..Len(bits) |-> IF bits[i] = sh THEN sg ELSE lg]

Repeat(b, n) == [i \in 1..n |-> b]
Alternate(n) == [i \in 1..n |-> i % 2]

\* how a scenario lays its message out in the byte buffer
Rotate(m, j) == Slice(m, j, Len(m)) \o Slice(m, 0, j)
Layout(m, shp, j) ==
    CASE shp = "plain" -> m
      [] shp = "wrap" -> Rotate(m, j)
      [] shp = "reverse" -> Reverse(m)
      [] shp = "reverse_wrap" -> Reverse(Rotate(m, j))

NoFound == [flag |-> None, pos |-> -1]

gapVars == <<ts, cluster1, cluster2, report>>
hypVars == <<short_is, offset, lsb_first>>
sweepVars == <<results, tried>>
searchVars == <<bit_string, found, found_flags>>
scenVars == <<msg, shape, k>>

GapIdle == ts = <<>> /\ cluster1 = NoCluster /\ cluster2 = NoCluster /\ report = ""
SweepIdle == results = <<>> /\ tried = {}
SearchIdle == bit_string = <<>> /\ found = NoFound /\ found_flags = <<>>
ScenIdle == msg = <<>> /\ shape = "none" /\ k = 0
HypIdle == short_is = 1 /\ offset = 0 /\ lsb_first = FALSE

----------------------------------------------------------------------------
(* The recognizer on laid-out messages: build the buffer, extract          *)

InitShapes ==
    /\ pc = "build"
    /\ msg \in Messages
    /\ shape \in {"plain", "wrap", "reverse", "reverse_wrap"}
    /\ k \in (IF shape \in {"wrap", "reverse_wrap"} THEN 1..(Len(msg) - 1) ELSE {0})
    /\ bs = <<>> /\ flag = None
    /\ gaps = <<>> /\ threshold = 0 /\ bitstr = <<>>
    /\ GapIdle /\ SweepIdle /\ SearchIdle /\ HypIdle

Build ==
    /\ pc = "build"
    /\ bs' = Layout(msg, shape, k)
    /\ pc' = "extract"
    /\ UNCHANGED <<gaps, threshold, bitstr, flag, gapVars, hypVars, sweepVars,
                   searchVars, scenVars>>

\* flag = extract_flag(bs)
Extract ==
    /\ pc = "extract"
    /\ flag' = extract_flag(bs, MaxSearch)
    /\ pc' = "done"
    /\ UNCHANGED <<gaps, threshold, bitstr, bs, gapVars, hypVars, sweepVars,
                   searchVars, scenVars>>

NextShapes == Build \/ Extract

SpecShapes == InitShapes /\ [][NextShapes]_vars

----------------------------------------------------------------------------
(* Both recognizers on an arbitrary byte buffer: bit_candecoder's          *)
(* search_for_flag and main loop on the buffer's bits, then extract_flag   *)

InitRecognize ==
    /\ pc = "tobits"
    /\ bs \in Buffers
    /\ flag = None
    /\ gaps = <<>> /\ threshold = 0 /\ bitstr = <<>>
    /\ GapIdle /\ SweepIdle /\ SearchIdle /\ HypIdle /\ ScenIdle

\* the sender's bit string: the buffer in either bit order, after 0 or 1 stray bit
ToBits ==
    /\ pc = "tobits"
    /\ \E lsb \in BOOLEAN, lead \in {<<>>, <<0>>} :
          /\ lsb_first' = lsb
          /\ bit_string' = lead \o BufferBits(bs, lsb)
    /\ pc' = "search"
    /\ UNCHANGED <<gaps, threshold, bitstr, bs, flag, gapVars, short_is, offset,
                   sweepVars, found, found_flags, scenVars>>

\* flag, pos = search_for_flag(bit_string, method_name)
Search ==
    /\ pc = "search"
    /\ found' = search_for_flag(bit_string)
    /\ pc' = "loop"
    /\ UNCHANGED <<gaps, threshold, bitstr, bs, flag, gapVars, hypVars, sweepVars,
                   bit_string, found_flags, scenVars>>

\* one method of main's "for method_name, bit_string in methods"
MainLoop ==
    /\ pc = "loop"
    /\ found_flags' = found_flags \o MethodFlags(bit_string)
    /\ pc' = "extract"
    /\ UNCHANGED <<gaps, threshold, bitstr, bs, flag, gapVars, hypVars, sweepVars,
                   bit_string, found, scenVars>>

NextRecognize == ToBits \/ Search \/ MainLoop \/ Extract

SpecRecognize == InitRecognize /\ [][NextRecognize]_vars

----------------------------------------------------------------------------
(* The timing channel end to end for one hypothesis: a sender encodes the  *)
(* message, the decoder runs bits_from_gaps, pack_bits_to_bytes and        *)
(* extract_flag under the same hypothesis                                  *)

\* thresholds in half ticks: 0.5, 5 and 5.5 ticks
Thresholds == {1, 10, 11}

InitRoundTrip ==
    /\ pc = "encode"
    /\ msg \in Messages /\ shape = "plain" /\ k = 0
    /\ short_is \in {0, 1} /\ offset \in 0..7 /\ lsb_first \in BOOLEAN
    /\ threshold \in Thresholds
    /\ gaps = <<>> /\ bitstr = <<>> /\ bs = <<>> /\ flag = None
    /\ GapIdle /\ SweepIdle /\ SearchIdle

\* offset stray bits, then the message; a short gap for each short_is bit
Encode ==
    /\ pc = "encode"
    /\ \E lead \in {Repeat(0, offset), Repeat(1, offset), Alternate(offset)},
          far \in BOOLEAN :
          /\ bit_string' = lead \o BufferBits(msg, lsb_first)
          /\ gaps' = GapsFor(bit_string', short_is,
                             IF far THEN 0 ELSE (threshold - 1) \div 2,
                             IF far THEN threshold ELSE (threshold + 1) \div 2)
    /\ pc' = "bits"
    /\ UNCHANGED <<threshold, bitstr, bs, flag, gapVars, hypVars, sweepVars,
                   found, found_flags, scenVars>>

\* bitstr = bits_from_gaps(gaps, threshold, short_is)
BitsFromGaps ==
    /\ pc = "bits"
    /\ bitstr' = bits_from_gaps(gaps, threshold, short_is)
    /\ pc' = "pack"
    /\ UNCHANGED <<gaps, threshold, bs, flag, gapVars, hypVars, sweepVars,
                   searchVars, scenVars>>

\* bs = pack_bits_to_bytes(bitstr, offset, lsb_first)
Pack ==
    /\ pc = "pack"
    /\ bs' = pack_bits_to_bytes(bitstr, offset, lsb_first)
    /\ pc' = "extract"
    /\ UNCHANGED <<gaps, threshold, bitstr, flag, gapVars, hypVars, sweepVars,
                   searchVars, scenVars>>

NextRoundTrip == Encode \/ BitsFromGaps \/ Pack \/ Extract

SpecRoundTrip == InitRoundTrip /\ [][NextRoundTrip]_vars

----------------------------------------------------------------------------
(* The byte packer on a bit string, followed by the recognizer             *)

RECURSIVE AllBits(_)
AllBits(n) ==
    IF n = 0 THEN {<<>>}
    ELSE LET prev == AllBits(n - 1)
         IN prev \cup {Append(p, b) : p \in {q \in prev : Len(q) = n - 1}, b \in {0, 1}}

\* up to MaxPre arbitrary bits, then up to MaxChunks of the bytes 'f' and 0x80
PackInputs ==
    {pre \o BufferBits(tail, FALSE) :
        pre \in AllBits(MaxPre), tail \in Concats({<<102>>, <<128>>}, MaxChunks)}

InitPack ==
    /\ pc = "pack"
    /\ bitstr \in PackInputs
    /\ offset \in 0..7 /\ lsb_first \in BOOLEAN /\ short_is = 1
    /\ bs = <<>> /\ flag = None
    /\ gaps = <<>> /\ threshold = 0
    /\ GapIdle /\ SweepIdle /\ SearchIdle /\ ScenIdle

NextPack == Pack \/ Extract

SpecPack == InitPack /\ [][NextPack]_vars

----------------------------------------------------------------------------
(* try_all_combinations: the three nested loops, one iteration per step    *)

Invert(bits) == [i \in 1..Len(bits) |-> 1 - bits[i]]

\* 'flag{}', 'flag{a}', '}a{galf'
SweepFirst == {Message(<<>>), Message(<<97>>), Reverse(Message(<<97>>))}
SweepSecond == SweepFirst \cup {<<>>}
SweepThird == {Message(<<97>>), <<>>}

\* up to three encoded buffers, each in its own bit order, the second
\* possibly in the opposite polarity, with stray bits before and between them
SweepBits ==
    {Repeat(0, lead) \o BufferBits(b1, l1) \o Repeat(0, pad)
        \o (IF inv THEN Invert(BufferBits(b2, l2)) ELSE BufferBits(b2, l2))
        \o Repeat(0, pad) \o BufferBits(b3, l3) :
        lead \in 0..MaxLead, pad \in 0..MaxPad,
        b1 \in SweepFirst, b2 \in SweepSecond, b3 \in SweepThird,
        l1 \in BOOLEAN, l2 \in BOOLEAN, l3 \in BOOLEAN, inv \in BOOLEAN}

InitSweep ==
    /\ pc = "sweep"
    /\ threshold = 11
    /\ gaps \in {GapsFor(b, 1, 1, 10) : b \in SweepBits}
    /\ short_is = 0 /\ offset = 0 /\ lsb_first = FALSE
    /\ bitstr = <<>> /\ bs = <<>> /\ flag = None
    /\ results = <<>> /\ tried = {}
    /\ GapIdle /\ SearchIdle /\ ScenIdle

\* the hypothesis the loops visit after (sh, off, lsb)
LastHypothesis(sh, off, lsb) == sh = 1 /\ off = 7 /\ lsb
NextShortIs(sh, off, lsb) == IF off = 7 /\ lsb THEN 1 ELSE sh
NextOffset(sh, off, lsb) == IF lsb THEN (off + 1) % 8 ELSE off
NextLsbFirst(sh, off, lsb) == ~lsb

\* one iteration of the innermost loop body
SweepStep ==
    /\ pc = "sweep"
    /\ bitstr' = bits_from_gaps(gaps, threshold, short_is)
    /\ bs' = pack_bits_to_bytes(bitstr', offset, lsb_first)
    /\ flag' = extract_flag(bs', MaxSearch)
    /\ results' = SweepBody(results, short_is, offset, lsb_first, flag')
    /\ tried' = tried \cup {<<short_is, offset, lsb_first>>}
    /\ IF LastHypothesis(short_is, offset, lsb_first)
       THEN pc' = "return" /\ UNCHANGED hypVars
       ELSE /\ pc' = "sweep"
            /\ short_is' = NextShortIs(short_is, offset, lsb_first)
            /\ offset' = NextOffset(short_is, offset, lsb_first)
            /\ lsb_first' = NextLsbFirst(short_is, offset, lsb_first)
    /\ UNCHANGED <<gaps, threshold, gapVars, searchVars, scenVars>>

\* return results
SweepReturn ==
    /\ pc = "return"
    /\ pc' = "done"
    /\ UNCHANGED <<gaps, threshold, bitstr, bs, flag, gapVars, hypVars, sweepVars,
                   searchVars, scenVars>>

NextSweep == SweepStep \/ SweepReturn

SpecSweep == InitSweep /\ [][NextSweep]_vars

----------------------------------------------------------------------------
(* find_threshold.py's __main__                                            *)

\* the timestamps that start at t0 and are gs apart
RECURSIVE Timestamps(_, _)
Timestamps(t0, gs) ==
    IF gs = <<>> THEN <<t0>> ELSE <<t0>> \o Timestamps(t0 + Head(gs), Tail(gs))

RECURSIVE GapSeqs(_)
GapSeqs(n) ==
    IF n = 0 THEN {<<>>}
    ELSE LET prev == GapSeqs(n - 1)
         IN prev \cup {Append(p, g) : p \in {q \in prev : Len(q) = n - 1}, g \in -1..MaxGap}

\* ten gaps of 1 tick and ten of 10 ticks, interleaved
ScenarioGaps == [i \in 1..20 |-> IF i % 2 = 1 THEN 1 ELSE 10]

\* no frame, or frames whose gaps are at most MaxGaps values of -1..MaxGap
\* (a log need not be in time order), or the scenario
TimestampInputs ==
    {<<>>} \cup {Timestamps(Len(g), g) : g \in GapSeqs(MaxGaps) \cup {ScenarioGaps}}

InitGaps ==
    /\ pc = "parse"
    /\ ts \in TimestampInputs
    /\ gaps = <<>> /\ threshold = NoThreshold
    /\ cluster1 = NoCluster /\ cluster2 = NoCluster /\ report = ""
    /\ bitstr = <<>> /\ bs = <<>> /\ flag = None
    /\ SweepIdle /\ SearchIdle /\ ScenIdle /\ HypIdle

\* "if not ts: ... sys.exit(1)"
NoTimestamps ==
    /\ pc = "parse"
    /\ ts = <<>>
    /\ report' = "no_timestamps"
    /\ pc' = "done"
    /\ UNCHANGED <<gaps, threshold, cluster1, cluster2, ts, bitstr, bs, flag,
                   hypVars, sweepVars, searchVars, scenVars>>

\* gaps = gaps_from_timestamps(ts)
ComputeGaps ==
    /\ pc = "parse"
    /\ ts # <<>>
    /\ gaps' = gaps_from_timestamps(ts)
    /\ pc' = "analyze"
    /\ UNCHANGED <<threshold, gapVars, bitstr, bs, flag, hypVars, sweepVars,
                   searchVars, scenVars>>

\* threshold = analyze_gaps(gaps), with the clusters it computed on the way
Analyze ==
    /\ pc = "analyze"
    /\ LET c == IF gaps = <<>> THEN [cluster1 |-> NoCluster, cluster2 |-> NoCluster]
                ELSE find_gap_clusters(gaps)
       IN cluster1' = c.cluster1 /\ cluster2' = c.cluster2
    /\ threshold' = analyze_gaps(gaps)
    /\ pc' = "report"
    /\ UNCHANGED <<gaps, ts, report, bitstr, bs, flag, hypVars, sweepVars,
                   searchVars, scenVars>>

\* "if threshold: ... else: Could not determine threshold automatically"
Report ==
    /\ pc = "report"
    /\ report' = IF ThresholdTruthy(threshold) THEN "use_threshold"
                 ELSE "could_not_determine"
    /\ pc' = "done"
    /\ UNCHANGED <<gaps, threshold, cluster1, cluster2, ts, bitstr, bs, flag,
                   hypVars, sweepVars, searchVars, scenVars>>

NextGaps == NoTimestamps \/ ComputeGaps \/ Analyze \/ Report

SpecGaps == InitGaps /\ [][NextGaps]_vars

----------------------------------------------------------------------------
(* Properties                                                              *)

\* a string with every placeholder character removed
RECURSIVE StripPlaceholders(_)
StripPlaceholders(s) ==
    IF s = <<>> THEN <<>>
    ELSE IF Head(s) = Placeholder THEN StripPlaceholders(Tail(s))
    ELSE <<Head(s)>> \o StripPlaceholders(Tail(s))

\* C1 (SpecRoundTrip): a message 'flag{' + body + '}' with a printable body
\* free of '}', encoded under a hypothesis (polarity, offset, bit order) and
\* decoded by bits_from_gaps, pack_bits_to_bytes and extract_flag under the
\* same hypothesis, comes back exactly.
C1_RoundTrip == pc = "done" => flag = msg

\* Supporting property: what the round trip does return is the message
\* without its '.' characters.
RoundTripStripsPlaceholders == pc = "done" => flag = StripPlaceholders(msg)

\* C2 as stated (SpecShapes): for every split position 0 < k < len(m),
\* extract_flag(m[k:] + m[:k]) returns m.
C2_WrapAroundAnySplit == (pc = "done" /\ shape = "wrap") => flag = msg

\* C2 as amended (SpecShapes): for every split position 5 <= k < len(m), so
\* that the prefix 'flag{' is not split, and with no 'flag{' (in any letter
\* case) inside the tail m[k:], extract_flag(m[k:] + m[:k]) returns m with its
\* '.' characters removed, hence exactly m when the body has no '.'.
C2_WrapAround ==
    (/\ pc = "done" /\ shape = "wrap"
     /\ k >= Len(PrefixBrace)
     /\ Find(Lower(Slice(msg, k, Len(msg))), PrefixBrace) = -1)
    => flag = StripPlaceholders(msg)

\* C2's case: a message with a body, split inside the body, recovered
C2_Witness ==
    /\ pc = "done" /\ shape = "wrap"
    /\ k > Len(PrefixBrace) /\ k < Len(msg) - 1
    /\ bs = Rotate(msg, k)
    /\ flag = msg

\* C3 (SpecShapes): extract_flag applied to the exact byte reverse of a
\* message returns the message, through the reversed fallback, which runs
\* only after the forward pass found nothing.
C3_Reversal ==
    (pc = "done" /\ shape = "reverse")
    => (flag = msg /\ ForwardPass(bs, MaxSearch) = None)

\* the value of 8 bits read MSB-first
Byte8(c) ==
    128 * c[1] + 64 * c[2] + 32 * c[3] + 16 * c[4] + 8 * c[5] + 4 * c[6] + 2 * c[7] + c[8]

\* the k-th byte (k = 0, 1, ...) the packer owes for bits b
ExpectedByte(b, off, lsb, n) ==
    LET chunk == [i \in 1..8 |-> b[off + 8 * n + i]]
    IN IF lsb THEN Byte8(Reverse(chunk)) ELSE Byte8(chunk)

Packed == pc \in {"extract", "done"}

\* C5 as stated (SpecPack): for every bit string, also one shorter than the
\* offset, pack_bits_to_bytes returns floor((len - offset) / 8) bytes, the
\* k-th being the value of bits[offset+8k .. offset+8k+7].
C5_PackerFloorLength ==
    Packed =>
        /\ Len(bs) = (Len(bitstr) - offset) \div 8
        /\ \A n \in 0..(Len(bs) - 1) : bs[n + 1] = ExpectedByte(bitstr, offset, lsb_first, n)

\* C5 as amended (SpecPack): pack_bits_to_bytes returns
\* max(0, floor((len - offset) / 8)) bytes (none when the bit string is
\* shorter than the offset), the k-th being the unsigned value of
\* bits[offset+8k .. offset+8k+7] read MSB-first, after reversing the chunk
\* when LSB-first; a trailing chunk of fewer than 8 bits adds no byte.
C5_Packer ==
    Packed =>
        /\ Len(bs) = (IF Len(bitstr) < offset THEN 0 ELSE (Len(bitstr) - offset) \div 8)
        /\ \A n \in 0..(Len(bs) - 1) : bs[n + 1] = ExpectedByte(bitstr, offset, lsb_first, n)

\* C5's case: two bytes packed LSB-first at an offset, a partial chunk left over
C5_Witness ==
    /\ Packed /\ lsb_first /\ offset > 0
    /\ Len(bs) = 2 /\ bs[1] # bs[2]
    /\ (Len(bitstr) - offset) % 8 # 0

\* the 32 hypotheses and their place in the loops' order
AllHypotheses == {0, 1} \X (0..7) \X BOOLEAN
HypIndex(h) == 16 * h[1] + 2 * h[2] + (IF h[3] THEN 1 ELSE 0)
Produces(h) == DecodeUnder(gaps, threshold, h[1], h[2], h[3])
HypOf(r) == <<r.short_is, r.offset, r.lsb_first>>

\* C4 (SpecSweep): try_all_combinations evaluates all 32 hypotheses; a
\* message is in the returned list exactly when extract_flag yields it under
\* some hypothesis; no two entries carry the same message; each entry records
\* the first hypothesis, in enumeration order, that yields its message.
C4_Sweep ==
    pc = "done" =>
        /\ tried = AllHypotheses
        /\ \A h \in AllHypotheses :
              Produces(h) # None => Produces(h) \in ResultFlags(results)
        /\ \A i \in 1..Len(results) :
              /\ results[i].flag # None
              /\ Produces(HypOf(results[i])) = results[i].flag
              /\ \A h \in AllHypotheses :
                    HypIndex(h) < HypIndex(HypOf(results[i]))
                        => Produces(h) # results[i].flag
              /\ results[i].byte_order = (IF results[i].lsb_first THEN "LSB" ELSE "MSB")
        /\ \A i, j \in 1..Len(results) : i # j => results[i].flag # results[j].flag

\* C4's case: the sweep ended with two distinct messages, one of which two
\* hypotheses yield
C4_Witness ==
    /\ pc = "done"
    /\ Len(results) >= 2
    /\ \E h1, h2 \in AllHypotheses :
          h1 # h2 /\ Produces(h1) # None /\ Produces(h1) = Produces(h2)

AllNonNegative(g) == \A i \in 1..Len(g) : g[i] >= 0
NonDecreasing(s) == \A i \in 1..(Len(s) - 1) : s[i] <= s[i + 1]
Count(s, v) == Cardinality({i \in 1..Len(s) : s[i] = v})
SameElements(s, g) ==
    Len(s) = Len(g) /\ \A i \in 1..Len(g) : Count(s, g[i]) = Count(g, g[i])

Analyzed == pc \in {"report", "done"}

RuleThreshold2(g) ==
    LET s == Sorted(g)
        jump(i) == s[i + 1] - s[i]
        idx == 1..(Len(s) - 1)
    IN IF idx = {} THEN Median2(g)
       ELSE LET i == CHOOSE x \in idx :
                        \A y \in idx : jump(y) < jump(x) \/ (jump(y) = jump(x) /\ x <= y)
            IN IF jump(i) > 2 * s[i] THEN s[i] + s[i + 1] ELSE Median2(g)

\* C9 (SpecGaps): for at least 2 timestamps with non-negative gaps the
\* analyzer outputs the threshold of the rule (midpoint at the largest jump if
\* it exceeds twice the value below it, else the median); the scenario gives
\* an accepted split and 5.5 ticks; and the threshold is reported as
\* determined, also when it is 0.
C9_ThresholdRule ==
    (pc = "done" /\ Len(ts) >= 2 /\ AllNonNegative(gaps))
    => /\ threshold.some
       /\ threshold.val = RuleThreshold2(gaps)
       /\ (gaps = ScenarioGaps => cluster1.some /\ threshold.val = 11)
       /\ report = "use_threshold"

\* Supporting property: the rule itself is what analyze_gaps returns.
ThresholdFollowsRule ==
    (pc = "done" /\ Len(ts) >= 2 /\ AllNonNegative(gaps))
    => /\ threshold = SomeThreshold(RuleThreshold2(gaps))
       /\ (gaps = ScenarioGaps => cluster1.some /\ threshold.val = 11)

\* starts with 'flag{' and contains '}'
ValidMatch(f) == StartsWith(f, PrefixBrace) /\ Contains(f, CloseBrace)

\* C7 (SpecRecognize): every message a recognizer returns, extract_flag on
\* any bytes or search_for_flag on any bits, starts with 'flag{' and
\* contains '}'.
C7_MatchValidity ==
    /\ flag # None => ValidMatch(flag)
    /\ found.flag # None => ValidMatch(found.flag)

\* Supporting property: extract_flag alone returns only valid matches.
ExtractFlagMatchValid == flag # None => ValidMatch(flag)

\* b[i..j] is a contiguous message: 'flag{' in any letter case, a printable
\* body without '}', then '}'
MessageAt(b, i, j) ==
    /\ i + Len(PrefixBrace) <= j /\ j < Len(b)
    /\ Lower(Slice(b, i, i + Len(PrefixBrace))) = PrefixBrace
    /\ b[j + 1] = CloseBrace
    /\ \A n \in (i + Len(PrefixBrace) + 1)..j :
          32 <= b[n] /\ b[n] <= 126 /\ b[n] # CloseBrace
HasMessage(b) == \E i \in 0..Len(b), j \in 0..Len(b) : MessageAt(b, i, j)

\* the prefix of f stands in b, or in b reversed, letter for letter
KeepsCase(f, b) ==
    \E i \in 0..(Len(b) - Len(PrefixBrace)) :
        \/ Slice(f, 0, Len(PrefixBrace)) = Slice(b, i, i + Len(PrefixBrace))
        \/ Slice(f, 0, Len(PrefixBrace)) = Slice(Reverse(b), i, i + Len(PrefixBrace))

\* C8 (SpecRecognize): on a buffer that contains a contiguous message whose
\* prefix matches 'flag{' in any letter case, extract_flag reports a match
\* that keeps the buffer's letter case, and so does the LSB path of
\* search_for_flag as accepted by main's loop.
C8_CaseInsensitivePrefix ==
    /\ (pc = "done" /\ HasMessage(bs))
       => (flag # None /\ KeepsCase(flag, bs))
    /\ (/\ pc \in {"extract", "done"} /\ HasMessage(bs)
        /\ bit_string = BufferBits(bs, TRUE)
        /\ SearchMsb(bit_string).flag = None)
       => (found_flags # <<>> /\ KeepsCase(found_flags[1].flag, bs))

\* C10 (SpecRecognize): when the forward pass finds nothing, extract_flag
\* returns what the forward recognition steps (wrap-around or sequential)
\* return on the reversed bytes.
C10_ReversedRepeatsForward ==
    (pc = "done" /\ ForwardPass(bs, MaxSearch) = None)
    => flag = ForwardPass(Reverse(bs), MaxSearch)

----------------------------------------------------------------------------
(* The recognizer on a message embedded between other bytes                *)

\* '}', 'a', a non-printable byte, 'FLAG{'
SurroundTokens == {<<CloseBrace>>, <<97>>, <<0>>, <<70, 76, 65, 71, 123>>}
Surroundings == Concats(SurroundTokens, MaxSurTok)

InitEmbed ==
    /\ pc = "embed"
    /\ msg \in Messages /\ shape = "embed" /\ k = 0
    /\ bs = <<>> /\ flag = None
    /\ gaps = <<>> /\ threshold = 0 /\ bitstr = <<>>
    /\ GapIdle /\ SweepIdle /\ SearchIdle /\ HypIdle

\* bs = pre + msg + post; k is where the message starts
Embed ==
    /\ pc = "embed"
    /\ \E pre \in Surroundings, post \in Surroundings :
          /\ bs' = pre \o msg \o post
          /\ k' = Len(pre)
    /\ pc' = "extract"
    /\ UNCHANGED <<gaps, threshold, bitstr, flag, gapVars, hypVars, sweepVars,
                   searchVars, msg, shape>>

NextEmbed == Embed \/ Extract

SpecEmbed == InitEmbed /\ [][NextEmbed]_vars

\* the bytes before and after the embedded message
PreOf(b, m, j) == Slice(b, 0, j)
PostOf(b, m, j) == Slice(b, j + Len(m), Len(b))

\* 'flag{', in any letter case, stands in b at position j and nowhere else
OnlyPrefixAt(b, j) ==
    \A i \in 0..(Len(b) - Len(PrefixBrace)) :
        Lower(Slice(b, i, i + Len(PrefixBrace))) = PrefixBrace <=> i = j

\* C11 as stated (SpecEmbed): for every buffer pre + m + post, with pre and
\* post arbitrary (possibly containing '}') and 'flag{' nowhere else in the
\* buffer, extract_flag returns exactly m.
C11_EmbeddedAnySurroundings ==
    (pc = "done" /\ OnlyPrefixAt(bs, k)) => flag = msg

\* C11 as amended (SpecEmbed): for every buffer pre + m + post in which pre
\* contains no '}' and 'flag{' (in any letter case) occurs nowhere but at the
\* start of m, extract_flag returns m with its '.' characters removed (hence
\* exactly m when the body has no '.'), with nothing of pre or post included.
C11_Embedded ==
    (/\ pc = "done" /\ OnlyPrefixAt(bs, k)
     /\ ~Contains(PreOf(bs, msg, k), CloseBrace))
    => flag = StripPlaceholders(msg)

\* C11's case: a message with a body, after a non-printable byte and before
\* a '}', extracted alone
C11_Witness ==
    /\ pc = "done" /\ OnlyPrefixAt(bs, k)
    /\ PreOf(bs, msg, k) = <<0>>
    /\ PostOf(bs, msg, k) = <<CloseBrace>>
    /\ Len(msg) > Len(PrefixBrace) + 1
    /\ flag = msg

============================================================================
